---- MODULE Spec2Model ----
(***************************************************************************)
(* A model of the Shabda Setu collection pipeline:                         *)
(*   - WordReconciliation (src/core/word_reconciliation.py): grouping,     *)
(*     threshold filtering and merging of candidate word entries;          *)
(*   - DataCollector (src/data/data_collection.py): construction of the    *)
(*     scrapers, the scrape / adjust / cache / accumulate loop with its    *)
(*     unconditional cleanup, reconciliation and storage.                  *)
(*                                                                         *)
(* Confidences are Python floats in the code.  The model computes with     *)
(* exact rationals [num, den] in lowest terms; rounding error of the       *)
(* floating-point operations is not modelled.                              *)
(***************************************************************************)
EXTENDS Integers, Sequences, FiniteSets, TLC

VARIABLES
    \* a caller of WordReconciliation.reconcile
    entries,     \* the caller's list of candidate dictionaries
    original,    \* that list as the caller built it
    arg,         \* the list as it was handed to the last reconcile call
    reconciled,  \* the records the last reconcile call returned
    rstatus,     \* "idle", "returned" or "raised": how the last call ended
    calls,       \* "none", "once", "twice": reconcile calls made so far
    first,       \* outcome of the first call
    shuffled,    \* whether the caller reordered the list between the calls
    \* a DataCollector
    languages,        \* the languages argument of __init__
    active_scrapers,  \* the scrapers argument of __init__
    cstatus,          \* "new", "constructed", or "aborted" (an exception left __init__)
    scrapers,         \* self.scrapers: [id, language, weight] per adapter
    skipped,          \* the (language, id) pairs __init__ logged and skipped
    cache_dir,        \* whether collect_and_store was given a cache directory
    pc,               \* where collect_and_store stands
    idx,              \* position of the scraper loop in self.scrapers
    words,            \* the loop's local list of words
    all_words,        \* the words accumulated over the adapters
    cleaned,          \* per adapter, the number of cleanup() calls made on it
    failures,         \* the steps that have raised so far in this run
    adjust_calls,     \* outcomes of the _adjust_confidence calls of this run
    reconciled_words, \* what reconcile returned to collect_and_store
    stored_count,     \* the stored_count of the store loop
    db,               \* the db argument of __init__: "Database" or "MagicMock"
    fetched,          \* per adapter visited, what its scrape_words call did
    requests,         \* the HTTP requests the adapters have issued
    store_attempts,   \* the keyword arguments of the add_word calls made
    store_outcomes,   \* per add_word call, "stored" or the exception raised
    result,           \* the value collect_and_store returned
    \* a caller of ScriptUtils
    script_text,      \* the text handed to ScriptUtils
    script_call,      \* the last ScriptUtils call and its result
    \* a words table and a caller of Database.add_word
    table,            \* the rows of the words table, in insertion order
    db_call           \* the last add_word call and how it ended

rvars == <<entries, original, arg, reconciled, rstatus, calls, first, shuffled>>

cvars == <<languages, active_scrapers, cstatus, scrapers, skipped, cache_dir, pc, idx,
           words, all_words, cleaned, failures, adjust_calls, reconciled_words,
           stored_count, db, fetched, requests, store_attempts, store_outcomes,
           result>>

svars == <<script_text, script_call>>

dvars == <<table, db_call>>

vars == <<rvars, cvars, svars, dvars>>

(***************************************************************************)
(* Bounds of the model.                                                    *)
(***************************************************************************)
\* longest list of candidate dictionaries handed to reconcile
MaxEntries == 3
\* longest languages list and longest scrapers list given to DataCollector
MaxLanguages == 2
MaxSources == 2
\* most entry pages an adapter's index lists
MaxPages == 2
\* longest text handed to ScriptUtils
MaxText == 3

(***************************************************************************)
(* Exact rational arithmetic standing in for float arithmetic.             *)
(***************************************************************************)
RECURSIVE GCD(_, _)
GCD(a, b) == IF b = 0 THEN a ELSE GCD(b, a % b)

Rat(n, d) == LET g == GCD(n, d) IN [num |-> n \div g, den |-> d \div g]

RatAdd(a, b) == Rat(a.num * b.den + b.num * a.den, a.den * b.den)

RatMul(a, b) == Rat(a.num * b.num, a.den * b.den)

RatDiv(a, b) == Rat(a.num * b.den, a.den * b.num)

RatLe(a, b) == a.num * b.den <= b.num * a.den

RatLt(a, b) == a.num * b.den < b.num * a.den

\* Python's min(a, b): b only when b < a
RatMin(a, b) == IF RatLt(b, a) THEN b ELSE a

RatOfInt(n) == Rat(n, 1)

One == Rat(1, 1)

Zero == Rat(0, 1)

(***************************************************************************)
(* Python values.                                                          *)
(***************************************************************************)
\* None, as a value a dictionary key may hold
None == [py_none |-> TRUE]

\* dict.get(k) for the optional list fields: a missing key reads as None,
\* and None and the empty list are both modelled as the empty set
GetSet(d, k) == IF k \in DOMAIN d THEN d[k] ELSE {}

\* dict.get(k): None when the key is missing
Get(d, k) == IF k \in DOMAIN d THEN d[k] ELSE None

RECURSIVE SeqSum(_)
SeqSum(s) == IF s = <<>> THEN Zero ELSE RatAdd(Head(s), SeqSum(Tail(s)))

RECURSIVE SeqMax(_)
SeqMax(s) ==
    IF Len(s) = 1 THEN Head(s)
    ELSE LET m == SeqMax(Tail(s)) IN IF RatLt(Head(s), m) THEN m ELSE Head(s)

(***************************************************************************)
(* WordReconciliation                                                      *)
(***************************************************************************)
\* WordReconciliation.__init__: confidence_threshold = 0.7
confidence_threshold == Rat(7, 10)

\* the literal 0.1 of the combined-confidence formula
CorroborationStep == Rat(1, 10)

RequiredKeys == {"word", "sanskrit_word", "language", "confidence", "source_url"}

\* What building WordEntry(...) from one dictionary does: the subscripts
\* entry['word'] ... entry['source_url'] are evaluated first, then
\* entry['context']['source'].
ConvertOutcome(entry) ==
    IF ~(RequiredKeys \subseteq DOMAIN entry) THEN "KeyError"
    ELSE IF "context" \notin DOMAIN entry THEN "KeyError"
    ELSE IF entry.context = None THEN "TypeError"
    ELSE IF "source" \notin DOMAIN entry.context THEN "KeyError"
    ELSE "ok"

WordEntry(entry) ==
    [word |-> entry.word,
     sanskrit_word |-> entry.sanskrit_word,
     language |-> entry.language,
     confidence |-> entry.confidence,
     source_url |-> entry.source_url,
     source_name |-> entry.context.source,
     meanings |-> GetSet(entry, "meanings"),
     usage_examples |-> GetSet(entry, "usage_examples"),
     context |-> Get(entry, "context")]

\* The conversion loop of reconcile: a KeyError skips the entry, any other
\* exception leaves the loop and the call.
RECURSIVE ConvertEntries(_)
ConvertEntries(es) ==
    IF es = <<>> THEN [raised |-> FALSE, word_entries |-> <<>>]
    ELSE LET o == ConvertOutcome(Head(es)) IN
         IF o = "TypeError" THEN [raised |-> TRUE, word_entries |-> <<>>]
         ELSE LET rest == ConvertEntries(Tail(es)) IN
              IF rest.raised THEN rest
              ELSE IF o = "KeyError" THEN rest
              ELSE [raised |-> FALSE,
                    word_entries |-> <<WordEntry(Head(es))>> \o rest.word_entries]

\* a grouping key that leaves the language out
GroupKey_without_language(e) == <<e.sanskrit_word, e.word, "any">>

GroupKey(e) == <<e.sanskrit_word, e.word, e.language>>

\* the keys of the defaultdict, in insertion order (first occurrence)
RECURSIVE GroupKeys(_)
GroupKeys(es) ==
    IF es = <<>> THEN <<>>
    ELSE LET init == GroupKeys(SubSeq(es, 1, Len(es) - 1))
             k == GroupKey(es[Len(es)])
         IN IF \E i \in 1..Len(init) : init[i] = k THEN init ELSE Append(init, k)

\* _group_entries: key -> the entries with that key, in input order
group_entries(es) ==
    LET keys == GroupKeys(es) IN
    [i \in 1..Len(keys) |->
        [key |-> keys[i],
         entries |-> SelectSeq(es, LAMBDA e : GroupKey(e) = keys[i])]]

\* an agreement score normalised by the weakest survivor instead of the strongest
calculate_agreement_score_by_last(es) ==
    IF Len(es) <= 1 THEN One
    ELSE LET confs == [i \in 1..Len(es) |-> es[i].confidence]
         IN RatDiv(SeqSum(confs), RatMul(RatOfInt(Len(es)), confs[Len(es)]))

\* _calculate_agreement_score
calculate_agreement_score(es) ==
    IF Len(es) <= 1 THEN One
    ELSE LET confs == [i \in 1..Len(es) |-> es[i].confidence]
             total_weight == SeqSum(confs)
         IN RatDiv(total_weight, RatMul(RatOfInt(Len(es)), SeqMax(confs)))

\* a sort by confidence that puts the weakest entry first
RECURSIVE SortByConfidence_ascending(_)
SortByConfidence_ascending(es) ==
    IF es = <<>> THEN <<>>
    ELSE LET init == SortByConfidence_ascending(SubSeq(es, 1, Len(es) - 1))
             x == es[Len(es)]
             pos == Cardinality({i \in 1..Len(init) :
                                   RatLe(init[i].confidence, x.confidence)})
         IN SubSeq(init, 1, pos) \o <<x>> \o SubSeq(init, pos + 1, Len(init))

\* list.sort(key=confidence, reverse=True): stable, equal keys keep their order
RECURSIVE SortByConfidence(_)
SortByConfidence(es) ==
    IF es = <<>> THEN <<>>
    ELSE LET init == SortByConfidence(SubSeq(es, 1, Len(es) - 1))
             x == es[Len(es)]
             \* x goes behind every element whose confidence is >= its own
             pos == Cardinality({i \in 1..Len(init) :
                                   RatLe(x.confidence, init[i].confidence)})
         IN SubSeq(init, 1, pos) \o <<x>> \o SubSeq(init, pos + 1, Len(init))

RECURSIVE UnionOver(_, _)
UnionOver(es, field) ==
    IF es = <<>> THEN {} ELSE es[1][field] \cup UnionOver(Tail(es), field)

\* a combined confidence that counts the primary among its corroborators
combined_confidence_counting_primary(primary, agreement, n) ==
    RatMin(One,
           RatMul(primary.confidence,
                  RatAdd(One, RatMul(RatMul(CorroborationStep, agreement),
                                     RatOfInt(n)))))

\* the combined confidence of _merge_entries
combined_confidence(primary, agreement, n) ==
    RatMin(One,
           RatMul(primary.confidence,
                  RatAdd(One, RatMul(RatMul(CorroborationStep, agreement),
                                     RatOfInt(n - 1)))))

\* a merge whose context names the primary entry's source only
merge_entries_naming_primary_only(reliable) ==
    LET sorted == SortByConfidence(reliable)
        primary == sorted[1]
        agreement == calculate_agreement_score(sorted)
    IN [word |-> primary.word,
        sanskrit_word |-> primary.sanskrit_word,
        language |-> primary.language,
        confidence |-> combined_confidence(primary, agreement, Len(sorted)),
        source_url |-> primary.source_url,
        source_name |-> <<primary.source_name, Len(sorted) - 1>>,
        meanings |-> UnionOver(sorted, "meanings"),
        usage_examples |-> UnionOver(sorted, "usage_examples"),
        context |-> [agreement_score |-> agreement,
                     source_count |-> Len(sorted),
                     sources |-> <<primary.source_name>>]]

\* _merge_entries
merge_entries(reliable) ==
    LET sorted == SortByConfidence(reliable)
        primary == sorted[1]
        agreement == calculate_agreement_score(sorted)
    IN [word |-> primary.word,
        sanskrit_word |-> primary.sanskrit_word,
        language |-> primary.language,
        confidence |-> combined_confidence(primary, agreement, Len(sorted)),
        source_url |-> primary.source_url,
        source_name |-> <<primary.source_name, Len(sorted) - 1>>,
        meanings |-> UnionOver(sorted, "meanings"),
        usage_examples |-> UnionOver(sorted, "usage_examples"),
        context |-> [agreement_score |-> agreement,
                     source_count |-> Len(sorted),
                     sources |-> [i \in 1..Len(sorted) |-> sorted[i].source_name]]]

\* a filter that drops the entries exactly at the threshold
reliable_entries_strict(es) ==
    SelectSeq(es, LAMBDA e : RatLt(confidence_threshold, e.confidence))

\* the filter of reconcile: a new list of the entries at or above the threshold
reliable_entries(es) ==
    SelectSeq(es, LAMBDA e : RatLe(confidence_threshold, e.confidence))

\* the dictionary reconcile appends for a merged entry
RecordOf(merged) ==
    [word |-> merged.word,
     sanskrit_word |-> merged.sanskrit_word,
     language |-> merged.language,
     confidence |-> merged.confidence,
     source_url |-> merged.source_url,
     meanings |-> merged.meanings,
     usage_examples |-> merged.usage_examples,
     context |-> merged.context]

\* a loop that merges the whole group once one of its entries is reliable
RECURSIVE ReconcileGroups_merging_whole_group(_)
ReconcileGroups_merging_whole_group(groups) ==
    IF groups = <<>> THEN <<>>
    ELSE LET reliable == reliable_entries(Head(groups).entries)
             rest == ReconcileGroups_merging_whole_group(Tail(groups))
         IN IF reliable # <<>>
            THEN <<RecordOf(merge_entries(Head(groups).entries))>> \o rest
            ELSE rest

\* the loop of reconcile over the groups: filter, then merge what is left
RECURSIVE ReconcileGroups(_)
ReconcileGroups(groups) ==
    IF groups = <<>> THEN <<>>
    ELSE LET reliable == reliable_entries(Head(groups).entries)
             rest == ReconcileGroups(Tail(groups))
         IN IF reliable # <<>>
            THEN <<RecordOf(merge_entries(reliable))>> \o rest
            ELSE rest

\* reconcile: the records returned, or raised
reconcile(es) ==
    LET conv == ConvertEntries(es) IN
    IF conv.raised THEN [raised |-> TRUE, records |-> <<>>]
    ELSE [raised |-> FALSE,
          records |-> ReconcileGroups(group_entries(conv.word_entries))]

\* a reconcile that sorts the caller's list in place
InputAfterReconcile_sorted(es) == SortByConfidence(es)

\* The caller's list after a reconcile call.  reconcile builds new lists
\* (word_entries, the defaultdict's lists, reliable_entries) and sorts only
\* reliable_entries; no statement writes to the argument or its dictionaries.
InputAfterReconcile(es) == es

(***************************************************************************)
(* The candidate dictionaries the reconcile calls are made on.             *)
(***************************************************************************)
\* the sources that put their name into context['source']
SourceNames == {"ddsa", "shabdanjali"}

SourceUrlOf(s) == IF s = "ddsa" THEN "https://dsal.uchicago.edu"
                  ELSE "https://sanskrit.jnu.ac.in"

\* the page of a source on which it reports a word of a language
EntryUrl(s, sk, w, l) == SourceUrlOf(s) \o "/" \o l \o "/" \o w \o "/" \o sk

MeaningsOf(s) == IF s = "ddsa" THEN {"m1"} ELSE {"m1", "m2"}

\* below the threshold, exactly at it, above it
Confidences == {Rat(50, 100), Rat(70, 100), Rat(90, 100)}

Candidate(sk, w, l, c, s) ==
    IF s = "ddsa"
    THEN [word |-> w, sanskrit_word |-> sk, language |-> l, confidence |-> c,
          source_url |-> EntryUrl(s, sk, w, l), meanings |-> MeaningsOf(s),
          context |-> [source |-> s]]
    ELSE [word |-> w, sanskrit_word |-> sk, language |-> l, confidence |-> c,
          source_url |-> EntryUrl(s, sk, w, l), meanings |-> MeaningsOf(s),
          usage_examples |-> {"x1"},
          context |-> [source |-> s]]

\* one triple reported by every source at every confidence
MainCandidates ==
    {Candidate("s1", "w1", "tamil", c, s) : c \in Confidences, s \in SourceNames}
    \cup {Candidate("s1", "w1", "tamil", Rat(95, 100), "shabdanjali")}

\* triples differing from the main one in exactly one key field
NeighbourCandidates ==
    {Candidate("s2", "w1", "tamil", Rat(90, 100), "ddsa"),
     Candidate("s1", "w2", "tamil", Rat(90, 100), "ddsa"),
     Candidate("s1", "w1", "hindi", Rat(90, 100), "ddsa")}

\* a triple that no source reports with confidence
WeakCandidates == {Candidate("s2", "w2", "hindi", Rat(50, 100), "shabdanjali")}

\* dictionaries the conversion cannot turn into a WordEntry
MalformedCandidates ==
    {[sanskrit_word |-> "s1", language |-> "tamil", confidence |-> Rat(90, 100),
      source_url |-> "https://dsal.uchicago.edu/e2", context |-> [source |-> "ddsa"]],
     [word |-> "w1", sanskrit_word |-> "s1", language |-> "tamil",
      confidence |-> Rat(95, 100), source_url |-> "https://ta.wikisource.org/e1",
      context |-> [collection |-> "bhagavad_gita"]],
     [word |-> "w1", sanskrit_word |-> "s1", language |-> "tamil",
      confidence |-> Rat(95, 100), source_url |-> "https://ta.wiktionary.org/e1",
      context |-> None]}

Candidates ==
    MainCandidates \cup NeighbourCandidates \cup WeakCandidates \cup MalformedCandidates

CandidateLists ==
    UNION {[1..n -> Candidates] : n \in 0..MaxEntries}

\* the list with the entries at positions i and i+1 exchanged
SwapAdjacent(es, i) ==
    [j \in 1..Len(es) |-> IF j = i THEN es[i + 1] ELSE IF j = i + 1 THEN es[i] ELSE es[j]]

(***************************************************************************)
(* The reconciliation state machine: a caller holds a list of candidate    *)
(* dictionaries, calls reconcile on it, and may hand the same candidates   *)
(* over again in another accumulation order.                               *)
(***************************************************************************)
\* no ScriptUtils caller exists
NoScriptCaller ==
    /\ script_text = <<>>
    /\ script_call = [fn |-> "none"]

\* no words table is in use
NoDatabase ==
    /\ table = <<>>
    /\ db_call = [fn |-> "none"]

\* no collector exists
NoCollector ==
    /\ languages = <<>>
    /\ active_scrapers = <<>>
    /\ cstatus = "new"
    /\ scrapers = <<>>
    /\ skipped = <<>>
    /\ cache_dir = FALSE
    /\ pc = "idle"
    /\ idx = 1
    /\ words = <<>>
    /\ all_words = <<>>
    /\ cleaned = <<>>
    /\ failures = {}
    /\ adjust_calls = {}
    /\ reconciled_words = <<>>
    /\ stored_count = 0
    /\ db = "Database"
    /\ fetched = [returned |-> <<>>, transient |-> FALSE]
    /\ requests = {}
    /\ store_attempts = <<>>
    /\ store_outcomes = <<>>
    /\ result = [returned |-> FALSE]

InitReconcile ==
    /\ NoCollector
    /\ NoScriptCaller
    /\ NoDatabase
    /\ entries \in CandidateLists
    /\ original = entries
    /\ arg = <<>>
    /\ reconciled = <<>>
    /\ rstatus = "idle"
    /\ calls = "none"
    /\ first = [raised |-> FALSE, records |-> <<>>]
    /\ shuffled = FALSE

CallReconcile ==
    /\ calls \in {"none", "once"}
    /\ LET r == reconcile(entries) IN
       /\ reconciled' = r.records
       /\ rstatus' = IF r.raised THEN "raised" ELSE "returned"
       /\ first' = IF calls = "none" THEN r ELSE first
    /\ arg' = entries
    /\ entries' = InputAfterReconcile(entries)
    /\ calls' = IF calls = "none" THEN "once" ELSE "twice"
    /\ UNCHANGED <<original, shuffled>>

\* the same candidates accumulated in another order (one adjacent exchange)
Shuffle ==
    /\ calls = "once"
    /\ ~shuffled
    /\ \E i \in 1..(Len(entries) - 1) :
          /\ entries[i] # entries[i + 1]
          /\ entries' = SwapAdjacent(entries, i)
    /\ shuffled' = TRUE
    /\ UNCHANGED <<original, arg, reconciled, rstatus, calls, first>>

NextReconcile ==
    \/ CallReconcile /\ UNCHANGED <<cvars, svars, dvars>>
    \/ Shuffle /\ UNCHANGED <<cvars, svars, dvars>>

SpecReconcile == InitReconcile /\ [][NextReconcile]_vars

(***************************************************************************)
(* ScriptUtils (src/utils/script_utils.py).  A text is a sequence of       *)
(* Unicode code points.                                                    *)
(***************************************************************************)
\* the members of the Script enum
ScriptMembers ==
    {"DEVANAGARI", "TAMIL", "BENGALI", "TELUGU", "MALAYALAM", "KANNADA", "LATIN", "IAST"}

\* ScriptUtils.SCRIPT_RANGES: the (start, end) blocks of a script
SCRIPT_RANGES(script) ==
    CASE script = "DEVANAGARI" -> {<<2304, 2431>>}
      [] script = "TAMIL"      -> {<<2944, 3071>>}
      [] script = "BENGALI"    -> {<<2432, 2559>>}
      [] script = "TELUGU"     -> {<<3072, 3199>>}
      [] script = "MALAYALAM"  -> {<<3328, 3455>>}
      [] script = "KANNADA"    -> {<<3200, 3327>>}
      [] script = "LATIN"      -> {<<0, 127>>}
      [] script = "IAST"       -> {<<0, 127>>, <<256, 383>>, <<7680, 7935>>}

\* ScriptUtils.DIACRITICS: udatta, anudatta, candrabindu, anusvara, visarga,
\* nukta, vowel signs r and rr, virama
DIACRITICS == {2385, 2386, 2305, 2306, 2307, 2364, 2371, 2372, 2381}

\* str.isspace and str.isnumeric, for the ASCII and Indic characters of the model
IsSpace(c) == c \in {9, 10, 11, 12, 13, 28, 29, 30, 31, 32, 133, 160}

IsNumeric(c) ==
    \/ c \in 48..57
    \/ c \in 2406..2415
    \/ c \in 2534..2543
    \/ c \in 3046..3058
    \/ c \in 3174..3183
    \/ c \in 3302..3311
    \/ c \in 3430..3439

\* whether a character lies in one of the blocks of a script
InRanges(char_code, script) ==
    \E r \in SCRIPT_RANGES(script) : r[1] <= char_code /\ char_code <= r[2]

\* The members of Script in definition order, which is also the order of the
\* keys of SCRIPT_RANGES: the order both loops of get_script iterate in.
ScriptOrder ==
    <<"DEVANAGARI", "TAMIL", "BENGALI", "TELUGU", "MALAYALAM", "KANNADA", "LATIN",
      "IAST">>

\* The position in ScriptOrder of the script a character is counted for: the
\* first whose blocks hold it (the inner loop breaks there), 0 when none does.
CountedFor(char_code) ==
    LET holders == {k \in 1..Len(ScriptOrder) : InRanges(char_code, ScriptOrder[k])}
    IN IF holders = {} THEN 0
       ELSE CHOOSE k \in holders : \A h \in holders : k <= h

\* script_counts as get_script has it after its loop over the text
script_counts(text) ==
    [k \in 1..Len(ScriptOrder) |->
        Cardinality({i \in 1..Len(text) : CountedFor(text[i]) = k})]

\* ScriptUtils.get_script: max over script_counts.items() by count; max
\* returns the first of several maximal items
get_script(text) ==
    LET counts == script_counts(text)
        best == CHOOSE k \in 1..Len(ScriptOrder) :
                    /\ \A h \in 1..Len(ScriptOrder) : counts[h] <= counts[k]
                    /\ \A h \in 1..(k - 1) : counts[h] < counts[k]
    IN ScriptOrder[best]

\* ScriptUtils.validate_script
validate_script(text, expected_script, allow_numerals, allow_diacritics) ==
    \A i \in 1..Len(text) :
        LET char_code == text[i] IN
        IF IsSpace(char_code) THEN TRUE
        ELSE IF IsNumeric(char_code) THEN allow_numerals
        ELSE IF char_code \in DIACRITICS THEN allow_diacritics
        ELSE \E r \in SCRIPT_RANGES(expected_script) : r[1] <= char_code /\ char_code <= r[2]

(***************************************************************************)
(* DataCollector                                                           *)
(***************************************************************************)
\* the keys of DataCollector.SCRAPERS
ScraperIds ==
    {"wiktionary", "sanskrit_dict", "wikisource", "ddsa", "punjabi_dict",
     "gujarati_dict", "odia_dict"}

\* DataCollector.SCRAPERS[id]['weight']
ScraperWeight(id) ==
    CASE id = "wiktionary"    -> Rat(70, 100)
      [] id = "sanskrit_dict" -> Rat(80, 100)
      [] id = "wikisource"    -> Rat(90, 100)
      [] id = "ddsa"          -> Rat(85, 100)
      [] id = "punjabi_dict"  -> Rat(85, 100)
      [] id = "gujarati_dict" -> Rat(85, 100)
      [] id = "odia_dict"     -> Rat(85, 100)

\* the keys of WiktionaryScraper.SUPPORTED_LANGUAGES
WiktionaryLanguages ==
    {"tamil", "hindi", "bengali", "telugu", "malayalam", "kannada", "gujarati",
     "punjabi", "odia"}

\* whether the constructor of the scraper class raises ValueError for a language
ConstructorRaisesValueError(id, lang) ==
    CASE id = "wiktionary"    -> lang \notin WiktionaryLanguages
      [] id = "punjabi_dict"  -> lang # "punjabi"
      [] id = "gujarati_dict" -> lang # "gujarati"
      [] id = "odia_dict"     -> lang # "odia"
      [] OTHER                -> FALSE

\* the (language, id) pairs in the order the nested loops of __init__ visit them
Pairs(langs, ids) ==
    [n \in 1..(Len(langs) * Len(ids)) |->
        [language |-> langs[((n - 1) \div Len(ids)) + 1],
         id |-> ids[((n - 1) % Len(ids)) + 1]]]

\* The loops of __init__.  self.SCRAPERS[scraper_id] raises KeyError for an
\* unknown id; the except clause catches ValueError only, so the KeyError
\* leaves __init__ and no collector comes into being.
RECURSIVE InitScrapers(_)
InitScrapers(pairs) ==
    IF pairs = <<>> THEN [aborted |-> FALSE, scrapers |-> <<>>, skipped |-> <<>>]
    ELSE LET p == Head(pairs) IN
         IF p.id \notin ScraperIds
         THEN [aborted |-> TRUE, scrapers |-> <<>>, skipped |-> <<>>]
         ELSE LET rest == InitScrapers(Tail(pairs)) IN
              IF rest.aborted THEN rest
              ELSE IF ConstructorRaisesValueError(p.id, p.language)
              THEN [rest EXCEPT !.skipped = <<p>> \o @]
              ELSE [rest EXCEPT !.scrapers =
                        <<[id |-> p.id, language |-> p.language,
                           weight |-> ScraperWeight(p.id)]>> \o @]

\* The names the script_map display of _adjust_confidence looks up on Script.
script_map ==
    [tamil |-> "TAMIL", telugu |-> "TELUGU", kannada |-> "KANNADA",
     malayalam |-> "MALAYALAM", bengali |-> "BENGALI", hindi |-> "DEVANAGARI",
     punjabi |-> "GURMUKHI", gujarati |-> "GUJARATI", odia |-> "ODIA"]

\* Building script_map evaluates every Script.<NAME>; a name that is no
\* member of the enum raises AttributeError, on every call.
ScriptMapRaises == \E l \in DOMAIN script_map : script_map[l] \notin ScriptMembers

\* the script_validation factor of _adjust_confidence
script_validation(word_info) ==
    LET target == IF word_info.language \in DOMAIN script_map
                     /\ ~validate_script(word_info.word,
                                         script_map[word_info.language], TRUE, TRUE)
                  THEN Rat(8, 10) ELSE One
        root == IF word_info.language \in DOMAIN script_map
                   /\ ~validate_script(word_info.sanskrit_word, "DEVANAGARI", TRUE, TRUE)
                THEN Rat(8, 10) ELSE One
        classical == IF "context" \in DOMAIN word_info
                        /\ "collection" \in DOMAIN word_info.context
                        /\ word_info.context.collection \in {"bhagavad_gita", "upanishads"}
                     THEN Rat(11, 10) ELSE One
    IN RatMul(RatMul(target, root), classical)

\* _adjust_confidence: how the call ends and the dictionary it leaves
adjust_confidence(word_info, scraper_weight) ==
    IF "confidence" \notin DOMAIN word_info
    THEN [outcome |-> "KeyError", word_info |-> word_info]
    ELSE IF ScriptMapRaises
    THEN [outcome |-> "AttributeError", word_info |-> word_info]
    ELSE [outcome |-> "returned",
          word_info |-> [word_info EXCEPT !.confidence =
              RatMin(One, RatMul(RatMul(word_info.confidence, scraper_weight),
                                 script_validation(word_info)))]]

\* words = [self._adjust_confidence(word, weight) for word in words]
RECURSIVE AdjustAll(_, _)
AdjustAll(ws, weight) ==
    IF ws = <<>> THEN [raised |-> FALSE, words |-> <<>>, calls |-> {}]
    ELSE LET a == adjust_confidence(Head(ws), weight)
             call == [word_info |-> Head(ws), left |-> a.word_info,
                      confidence |-> Get(Head(ws), "confidence"), weight |-> weight,
                      outcome |-> a.outcome, adjusted |-> Get(a.word_info, "confidence")]
         IN IF a.outcome # "returned"
            THEN [raised |-> TRUE, words |-> <<>>, calls |-> {call}]
            ELSE LET rest == AdjustAll(Tail(ws), weight) IN
                 [raised |-> rest.raised,
                  words |-> IF rest.raised THEN <<>> ELSE <<a.word_info>> \o rest.words,
                  calls |-> {call} \cup rest.calls]

(***************************************************************************)
(* The collectors constructed and the words their adapters return.         *)
(***************************************************************************)
\* languages and scraper identifiers a caller passes: a supported language,
\* one Wiktionary does not support, and an identifier SCRAPERS does not have
CallerLanguages == {"tamil", "urdu"}

CallerScraperIds == {"wiktionary", "ddsa", "nonexistent"}

\* the non-empty lists without repetition of at most n elements of S
ListsOf(S, n) ==
    {l \in UNION {[1..k -> S] : k \in 1..n} :
        \A i, j \in 1..Len(l) : i # j => l[i] # l[j]}

\* அகம், अहम् and a Latin transliteration
TamilText == <<2949, 2965, 2990, 3021>>

DevanagariText == <<2309, 2361, 2350, 2381>>

LatinText == <<97, 104, 97, 109>>

\* DDSAScraper.dictionaries: the dictionary of a language, with the base
\* confidence its entries are given
DDSADictionary(language) ==
    CASE language = "tamil"   -> [name |-> "tamil-tamil-sanskrit", confidence |-> Rat(85, 100)]
      [] language = "telugu"  -> [name |-> "brown", confidence |-> Rat(80, 100)]
      [] language = "hindi"   -> [name |-> "platts", confidence |-> Rat(80, 100)]
      [] language = "bengali" -> [name |-> "biswas-bengali-sanskrit", confidence |-> Rat(85, 100)]

\* A dictionary as an adapter builds it.  DDSAScraper attaches a context
\* naming its source; WiktionaryScraper attaches no context.
ScrapedEntry(scraper, w) ==
    IF scraper.id = "ddsa"
    THEN [word |-> w, sanskrit_word |-> DevanagariText,
          language |-> scraper.language,
          confidence |-> DDSADictionary(scraper.language).confidence,
          source_url |-> "https://dsal.uchicago.edu/e1",
          context |-> [dictionary |-> DDSADictionary(scraper.language).name,
                       source |-> "ddsa"]]
    ELSE [word |-> w, sanskrit_word |-> DevanagariText,
          language |-> scraper.language, confidence |-> Rat(8, 10),
          source_url |-> "https://ta.wiktionary.org/e1"]

\* a Tamil headword with a Latin letter in front
MixedText == <<97>> \o TamilText

\* The adapters that fetch every URL through BaseScraper.get_page; the others
\* (DDSAScraper, SanskritDictScraper) call self.session.get themselves.
UsesGetPage(id) ==
    id \in {"wiktionary", "wikisource", "punjabi_dict", "gujarati_dict", "odia_dict"}

\* The languages an adapter has a source for: the keys of
\* WiktionaryScraper.SUPPORTED_LANGUAGES, DDSAScraper.dictionaries,
\* SanskritDictScraper.language_map, WikisourceScraper.category_map, and the
\* one language of each single-language dictionary.
SupportedLanguages(id) ==
    CASE id = "wiktionary"    -> WiktionaryLanguages
      [] id = "ddsa"          -> {"tamil", "telugu", "hindi", "bengali"}
      [] id = "sanskrit_dict" ->
             {"tamil", "telugu", "kannada", "malayalam", "bengali", "hindi"}
      [] id = "wikisource"    ->
             {"tamil", "telugu", "kannada", "malayalam", "bengali", "hindi"}
      [] id = "punjabi_dict"  -> {"punjabi"}
      [] id = "gujarati_dict" -> {"gujarati"}
      [] id = "odia_dict"     -> {"odia"}

\* A URL of the source as the adapter meets it: whether the robots.txt policy
\* read at construction lets it be fetched, whether the server answers it
\* with a 2xx status, and the headword of the page behind it.
IndexPages ==
    {[allowed |-> TRUE, status |-> "ok"],
     [allowed |-> TRUE, status |-> "error"],
     [allowed |-> FALSE, status |-> "ok"]}

EntryPages ==
    {[allowed |-> TRUE, status |-> "error", title |-> <<>>],
     [allowed |-> TRUE, status |-> "ok", title |-> TamilText],
     [allowed |-> TRUE, status |-> "ok", title |-> MixedText],
     [allowed |-> FALSE, status |-> "ok", title |-> TamilText]}

PageLists == UNION {[1..n -> EntryPages] : n \in 0..MaxPages}

\* The delay every adapter passes to BaseScraper.__init__ (1.0 s), in half
\* seconds.  A request and the handling of its response take one half second.
Delay == 2

\* The adapter's clock when scrape_words begins: time.time() as it reads now,
\* and last_request_time, which __init__ set to 0 long before.
StartClock == [now |-> Delay, last |-> 0]

\* _respect_rate_limit: the time at which it returns, having slept for what
\* is missing of the delay since last_request_time
respect_rate_limit(clock) ==
    IF clock.now - clock.last < Delay THEN clock.last + Delay ELSE clock.now

\* One fetch.  get_page returns None without a request when _can_fetch is
\* false; otherwise it waits in _respect_rate_limit, sends the request and
\* returns None when it fails.  session.get called by the adapter itself goes
\* out at once, whatever the policy says and whenever the last request was.
Fetch(id, page, clock) ==
    IF UsesGetPage(id)
    THEN IF ~page.allowed
         THEN [requested |-> FALSE, ok |-> FALSE, at |-> 0, clock |-> clock]
         ELSE LET sent == respect_rate_limit(clock) IN
              [requested |-> TRUE, ok |-> page.status = "ok", at |-> sent,
               clock |-> [now |-> sent + 1, last |-> sent]]
    ELSE [requested |-> TRUE, ok |-> page.status = "ok", at |-> clock.now,
          clock |-> [now |-> clock.now + 1, last |-> clock.last]]

\* WiktionaryScraper.SUPPORTED_LANGUAGES[language]['script_range']
WiktionaryScriptRange(language) ==
    CASE language = "tamil"     -> <<2944, 3071>>
      [] language = "hindi"     -> <<2304, 2431>>
      [] language = "bengali"   -> <<2432, 2559>>
      [] language = "telugu"    -> <<3072, 3199>>
      [] language = "malayalam" -> <<3328, 3455>>
      [] language = "kannada"   -> <<3200, 3327>>
      [] language = "gujarati"  -> <<2688, 2815>>
      [] language = "punjabi"   -> <<2560, 2687>>
      [] language = "odia"      -> <<2816, 2943>>

\* the script_map of DDSAScraper._extract_word_info
DDSAScriptMap ==
    [tamil |-> "TAMIL", telugu |-> "TELUGU", kannada |-> "KANNADA",
     malayalam |-> "MALAYALAM", bengali |-> "BENGALI", hindi |-> "DEVANAGARI"]

\* _extract_word_info: whether the page with this headword yields an entry.
\* DDSAScraper wants the headword to conform to the language's script,
\* WiktionaryScraper wants the title to hold a character of that script.
ExtractsEntry(scraper, title) ==
    IF scraper.id = "ddsa"
    THEN scraper.language \in DOMAIN DDSAScriptMap =>
            validate_script(title, DDSAScriptMap[scraper.language], TRUE, TRUE)
    ELSE LET r == WiktionaryScriptRange(scraper.language) IN
         \E i \in 1..Len(title) : r[1] <= title[i] /\ title[i] <= r[2]

\* The loop of scrape_words over the entry pages from position i on: a page
\* that is not fetched or whose fetch fails is passed over, the words found
\* before it are kept.
RECURSIVE ScrapePages(_, _, _, _)
ScrapePages(scraper, pages, i, clock) ==
    IF i > Len(pages) THEN [words |-> <<>>, requests |-> {}, transient |-> FALSE]
    ELSE LET f == Fetch(scraper.id, pages[i], clock)
             rest == ScrapePages(scraper, pages, i + 1, f.clock)
             here == IF f.requested
                     THEN {[id |-> scraper.id, url |-> i, allowed |-> pages[i].allowed,
                            at |-> f.at]}
                     ELSE {}
         IN [words |-> (IF f.ok /\ ExtractsEntry(scraper, pages[i].title)
                        THEN <<ScrapedEntry(scraper, pages[i].title)>>
                        ELSE <<>>) \o rest.words,
             requests |-> here \cup rest.requests,
             transient |-> (f.requested /\ ~f.ok) \/ rest.transient]

\* scrape_words: the words returned, the requests issued, and whether a
\* request failed on the way.  DDSAScraper returns at once when it has no
\* dictionary for the language; otherwise the index is fetched first and the
\* entry pages are visited only when that fetch succeeds.
scrape_words(scraper, index, pages) ==
    IF scraper.id = "ddsa" /\ scraper.language \notin SupportedLanguages("ddsa")
    THEN [words |-> <<>>, requests |-> {}, transient |-> FALSE]
    ELSE LET f == Fetch(scraper.id, index, StartClock)
             here == IF f.requested
                     THEN {[id |-> scraper.id, url |-> 0, allowed |-> index.allowed,
                            at |-> f.at]}
                     ELSE {}
         IN IF ~f.ok
            THEN [words |-> <<>>, requests |-> here, transient |-> f.requested]
            ELSE LET r == ScrapePages(scraper, pages, 1, f.clock) IN
                 [words |-> r.words, requests |-> here \cup r.requests,
                  transient |-> r.transient]

\* The keyword arguments collect_and_store hands to db.add_word.
AddWordKwargs(word_info) ==
    [word |-> word_info.word,
     sanskrit_word |-> word_info.sanskrit_word,
     language |-> word_info.language,
     confidence |-> word_info.confidence,
     source_url |-> word_info.source_url,
     meanings |-> Get(word_info, "meanings"),
     usage_examples |-> Get(word_info, "usage_examples"),
     context |-> Get(word_info, "context")]

\* the parameters of Database.add_word, and those without a default
AddWordParameters == {"word", "language", "script", "romanized", "meaning"}

AddWordRequired == {"word", "language", "script", "romanized"}

\* The collaborators handed to DataCollector: the Database of
\* scripts/collect_data.py, and the MagicMock(spec=Database) of the tests,
\* which takes any call.
DbKinds == {"Database", "MagicMock"}

\* How one db.add_word(**kwargs) call can end.  Binding the keywords to
\* Database.add_word's parameters fails with TypeError when a keyword is no
\* parameter or a required parameter is missing; the body then never runs.
AddWordOutcomes(kind, kwargs) ==
    IF kind = "Database"
    THEN IF DOMAIN kwargs \subseteq AddWordParameters
            /\ AddWordRequired \subseteq DOMAIN kwargs
         THEN {"stored", "DatabaseError"}
         ELSE {"TypeError"}
    ELSE {"stored", "DatabaseError"}

\* a store loop that gives up at the first add_word call that raises
RECURSIVE StoreLoop_stopping_at_failure(_, _, _)
StoreLoop_stopping_at_failure(records, outcomes, i) ==
    IF i > Len(records) THEN [attempts |-> <<>>, stored |-> 0]
    ELSE IF outcomes[i] # "stored"
    THEN [attempts |-> <<AddWordKwargs(records[i])>>, stored |-> 0]
    ELSE LET rest == StoreLoop_stopping_at_failure(records, outcomes, i + 1) IN
         [attempts |-> <<AddWordKwargs(records[i])>> \o rest.attempts,
          stored |-> rest.stored + 1]

\* The store loop from record i on: every record is tried, an exception is
\* logged and the loop goes on, stored_count counts the calls that returned.
RECURSIVE StoreLoop(_, _, _)
StoreLoop(records, outcomes, i) ==
    IF i > Len(records) THEN [attempts |-> <<>>, stored |-> 0]
    ELSE LET rest == StoreLoop(records, outcomes, i + 1) IN
         [attempts |-> <<AddWordKwargs(records[i])>> \o rest.attempts,
          stored |-> rest.stored + (IF outcomes[i] = "stored" THEN 1 ELSE 0)]

(***************************************************************************)
(* The collector state machine: DataCollector(db, languages, scrapers),    *)
(* then collect_and_store(cache_dir).                                      *)
(***************************************************************************)
\* no reconcile caller exists
NoCaller ==
    /\ entries = <<>>
    /\ original = <<>>
    /\ arg = <<>>
    /\ reconciled = <<>>
    /\ rstatus = "idle"
    /\ calls = "none"
    /\ first = [raised |-> FALSE, records |-> <<>>]
    /\ shuffled = FALSE

InitCollect ==
    /\ NoCaller
    /\ languages \in ListsOf(CallerLanguages, MaxLanguages)
    /\ active_scrapers \in ListsOf(CallerScraperIds, MaxSources)
    /\ cstatus = "new"
    /\ scrapers = <<>>
    /\ skipped = <<>>
    /\ cache_dir = FALSE
    /\ pc = "idle"
    /\ idx = 1
    /\ words = <<>>
    /\ all_words = <<>>
    /\ cleaned = <<>>
    /\ failures = {}
    /\ adjust_calls = {}
    /\ reconciled_words = <<>>
    /\ stored_count = 0
    /\ db \in DbKinds
    /\ fetched = [returned |-> <<>>, transient |-> FALSE]
    /\ requests = {}
    /\ store_attempts = <<>>
    /\ store_outcomes = <<>>
    /\ result = [returned |-> FALSE]
    /\ NoScriptCaller
    /\ NoDatabase

\* DataCollector.__init__
Construct ==
    /\ cstatus = "new"
    /\ LET r == InitScrapers(Pairs(languages, active_scrapers)) IN
       /\ cstatus' = IF r.aborted THEN "aborted" ELSE "constructed"
       /\ scrapers' = r.scrapers
       /\ skipped' = r.skipped
       /\ cleaned' = [i \in 1..Len(r.scrapers) |-> 0]
    /\ UNCHANGED <<languages, active_scrapers, cache_dir, pc, idx, words, all_words,
                   failures, adjust_calls, reconciled_words, stored_count,
                   db, fetched, requests, store_attempts, store_outcomes, result>>

\* where the scraper loop goes from position i
LoopAt(i) == IF i <= Len(scrapers) THEN "scrape" ELSE "reconcile"

\* collect_and_store is called, with or without a cache directory
BeginRun ==
    /\ cstatus = "constructed"
    /\ pc = "idle"
    /\ \E given \in BOOLEAN :
          /\ cache_dir' = given
          /\ pc' = IF given THEN "mkdir" ELSE LoopAt(1)
    /\ all_words' = <<>>
    /\ idx' = 1
    /\ UNCHANGED <<languages, active_scrapers, cstatus, scrapers, skipped, words,
                   cleaned, failures, adjust_calls, reconciled_words, stored_count,
                   db, fetched, requests, store_attempts, store_outcomes, result>>

\* cache_path.mkdir(parents=True, exist_ok=True), outside any try: an OSError
\* (the path is a file, no permission) leaves collect_and_store
MakeCacheDir ==
    /\ pc = "mkdir"
    /\ \E ok \in BOOLEAN :
          /\ pc' = IF ok THEN LoopAt(1) ELSE "raised"
          /\ failures' = IF ok THEN failures ELSE failures \cup {"mkdir"}
    /\ UNCHANGED <<languages, active_scrapers, cstatus, scrapers, skipped, cache_dir,
                   idx, words, all_words, cleaned, adjust_calls, reconciled_words,
                   stored_count,
                   db, fetched, requests, store_attempts, store_outcomes, result>>

\* words = scraper.scrape_words(): returns a list, raises, or is interrupted
\* while a request is in flight.  KeyboardInterrupt is no Exception: the
\* except clause is passed over, the finally clause runs, and the interrupt
\* leaves the loop and collect_and_store.
ScrapeWords ==
    /\ pc = "scrape"
    /\ \/ \E index \in IndexPages, pages \in PageLists :
             LET r == scrape_words(scrapers[idx], index, pages) IN
             /\ words' = r.words
             /\ fetched' = [returned |-> r.words, transient |-> r.transient]
             /\ requests' = r.requests
             /\ pc' = "adjust"
             /\ failures' = failures
       \/ /\ words' = words
          /\ fetched' = [returned |-> <<>>, transient |-> FALSE]
          /\ requests' = {}
          /\ pc' = "except"
          /\ failures' = failures \cup {"scrape"}
       \/ /\ words' = words
          /\ fetched' = [returned |-> <<>>, transient |-> FALSE]
          /\ requests' = {}
          /\ pc' = "finally"
          /\ failures' = failures \cup {"interrupt"}
    /\ UNCHANGED <<languages, active_scrapers, cstatus, scrapers, skipped, cache_dir,
                   idx, all_words, cleaned, adjust_calls, reconciled_words,
                   stored_count,
                   db, store_attempts, store_outcomes, result>>

\* the list comprehension over _adjust_confidence
AdjustWords ==
    /\ pc = "adjust"
    /\ LET r == AdjustAll(words, scrapers[idx].weight) IN
       /\ adjust_calls' = adjust_calls \cup r.calls
       /\ words' = IF r.raised THEN words ELSE r.words
       /\ pc' = IF r.raised THEN "except" ELSE IF cache_dir THEN "cache" ELSE "extend"
       /\ failures' = IF r.raised THEN failures \cup {"adjust"} ELSE failures
    /\ UNCHANGED <<languages, active_scrapers, cstatus, scrapers, skipped, cache_dir,
                   idx, all_words, cleaned, reconciled_words, stored_count,
                   db, fetched, requests, store_attempts, store_outcomes, result>>

\* open(cache_file, 'w') and json.dump: succeeds or raises
WriteCache ==
    /\ pc = "cache"
    /\ \E ok \in BOOLEAN :
          /\ pc' = IF ok THEN "extend" ELSE "except"
          /\ failures' = IF ok THEN failures ELSE failures \cup {"cache"}
    /\ UNCHANGED <<languages, active_scrapers, cstatus, scrapers, skipped, cache_dir,
                   idx, words, all_words, cleaned, adjust_calls, reconciled_words,
                   stored_count,
                   db, fetched, requests, store_attempts, store_outcomes, result>>

\* all_words.extend(words)
ExtendAllWords ==
    /\ pc = "extend"
    /\ all_words' = all_words \o words
    /\ pc' = "finally"
    /\ UNCHANGED <<languages, active_scrapers, cstatus, scrapers, skipped, cache_dir,
                   idx, words, cleaned, failures, adjust_calls, reconciled_words,
                   stored_count,
                   db, fetched, requests, store_attempts, store_outcomes, result>>

\* except Exception: the error is logged
HandleError ==
    /\ pc = "except"
    /\ pc' = "finally"
    /\ UNCHANGED <<languages, active_scrapers, cstatus, scrapers, skipped, cache_dir,
                   idx, words, all_words, cleaned, failures, adjust_calls,
                   reconciled_words, stored_count,
                   db, fetched, requests, store_attempts, store_outcomes, result>>

\* finally: scraper.cleanup(); then the next adapter, unless an interrupt
\* is on its way out of the loop
Cleanup ==
    /\ pc = "finally"
    /\ cleaned' = [cleaned EXCEPT ![idx] = @ + 1]
    /\ idx' = IF "interrupt" \in failures THEN idx ELSE idx + 1
    /\ pc' = IF "interrupt" \in failures THEN "raised" ELSE LoopAt(idx + 1)
    /\ UNCHANGED <<languages, active_scrapers, cstatus, scrapers, skipped, cache_dir,
                   words, all_words, failures, adjust_calls, reconciled_words,
                   stored_count,
                   db, fetched, requests, store_attempts, store_outcomes, result>>

\* reconciled_words = WordReconciliation().reconcile(all_words)
ReconcileAll ==
    /\ pc = "reconcile"
    /\ LET r == reconcile(all_words) IN
       /\ reconciled_words' = r.records
       /\ pc' = IF r.raised THEN "raised" ELSE "store"
    /\ UNCHANGED <<languages, active_scrapers, cstatus, scrapers, skipped, cache_dir,
                   idx, words, all_words, cleaned, failures, adjust_calls,
                   stored_count,
                   db, fetched, requests, store_attempts, store_outcomes, result>>

\* The store loop, db.add_word per record, and the end of collect_and_store,
\* which has no return statement: the caller receives None.
StoreAll ==
    /\ pc = "store"
    /\ \E outcomes \in [1..Len(reconciled_words) -> {"stored", "TypeError", "DatabaseError"}] :
          /\ \A i \in 1..Len(reconciled_words) :
                outcomes[i] \in AddWordOutcomes(db, AddWordKwargs(reconciled_words[i]))
          /\ LET r == StoreLoop(reconciled_words, outcomes, 1) IN
             /\ store_attempts' = r.attempts
             /\ stored_count' = r.stored
          /\ store_outcomes' = outcomes
    /\ result' = [returned |-> TRUE, value |-> None]
    /\ pc' = "done"
    /\ UNCHANGED <<languages, active_scrapers, cstatus, scrapers, skipped, cache_dir,
                   idx, words, all_words, cleaned, failures, adjust_calls,
                   reconciled_words,
                   db, fetched, requests>>

NextCollect ==
    \/ Construct /\ UNCHANGED <<rvars, svars, dvars>>
    \/ BeginRun /\ UNCHANGED <<rvars, svars, dvars>>
    \/ MakeCacheDir /\ UNCHANGED <<rvars, svars, dvars>>
    \/ ScrapeWords /\ UNCHANGED <<rvars, svars, dvars>>
    \/ AdjustWords /\ UNCHANGED <<rvars, svars, dvars>>
    \/ WriteCache /\ UNCHANGED <<rvars, svars, dvars>>
    \/ ExtendAllWords /\ UNCHANGED <<rvars, svars, dvars>>
    \/ HandleError /\ UNCHANGED <<rvars, svars, dvars>>
    \/ Cleanup /\ UNCHANGED <<rvars, svars, dvars>>
    \/ ReconcileAll /\ UNCHANGED <<rvars, svars, dvars>>
    \/ StoreAll /\ UNCHANGED <<rvars, svars, dvars>>

SpecCollect == InitCollect /\ [][NextCollect]_vars

Spec == SpecCollect

(***************************************************************************)
(* The second half of collect_and_store taken on its own: the run stands   *)
(* at line 188 with a list all_words in hand, reconciles it and stores the *)
(* records.                                                                *)
(***************************************************************************)
InitStore ==
    /\ NoCaller
    /\ NoScriptCaller
    /\ NoDatabase
    /\ languages = <<>>
    /\ active_scrapers = <<>>
    /\ cstatus = "constructed"
    /\ scrapers = <<>>
    /\ skipped = <<>>
    /\ cache_dir = FALSE
    /\ pc = "reconcile"
    /\ idx = 1
    /\ words = <<>>
    /\ all_words \in CandidateLists
    /\ cleaned = <<>>
    /\ failures = {}
    /\ adjust_calls = {}
    /\ reconciled_words = <<>>
    /\ stored_count = 0
    /\ db \in DbKinds
    /\ fetched = [returned |-> <<>>, transient |-> FALSE]
    /\ requests = {}
    /\ store_attempts = <<>>
    /\ store_outcomes = <<>>
    /\ result = [returned |-> FALSE]

NextStore ==
    \/ ReconcileAll /\ UNCHANGED <<rvars, svars, dvars>>
    \/ StoreAll /\ UNCHANGED <<rvars, svars, dvars>>

SpecStore == InitStore /\ [][NextStore]_vars

(***************************************************************************)
(* A caller of ScriptUtils: a text, and one get_script or validate_script  *)
(* call on it.                                                             *)
(***************************************************************************)
\* space, a, a-macron, DEVANAGARI LETTER A, DEVANAGARI DIGIT ZERO, DEVANAGARI
\* SIGN VIRAMA, TAMIL LETTER A, TAMIL DIGIT ZERO, GUJARATI LETTER A
ScriptChars == {32, 97, 257, 2309, 2406, 2381, 2949, 3046, 2693}

ScriptTexts == UNION {[1..n -> ScriptChars] : n \in 0..MaxText}

InitScript ==
    /\ NoCaller
    /\ NoCollector
    /\ NoDatabase
    /\ script_text \in ScriptTexts
    /\ script_call = [fn |-> "none"]

GetScript ==
    /\ script_call.fn = "none"
    /\ script_call' = [fn |-> "get_script", result |-> get_script(script_text)]
    /\ UNCHANGED script_text

ValidateScript ==
    /\ script_call.fn = "none"
    /\ \E expected_script \in ScriptMembers, allow_numerals, allow_diacritics \in BOOLEAN :
          script_call' =
              [fn |-> "validate_script",
               expected_script |-> expected_script,
               allow_numerals |-> allow_numerals,
               allow_diacritics |-> allow_diacritics,
               result |-> validate_script(script_text, expected_script,
                                          allow_numerals, allow_diacritics)]
    /\ UNCHANGED script_text

NextScript ==
    \/ GetScript /\ UNCHANGED <<rvars, cvars, dvars>>
    \/ ValidateScript /\ UNCHANGED <<rvars, cvars, dvars>>

SpecScript == InitScript /\ [][NextScript]_vars

(***************************************************************************)
(* Database.add_word (src/core/database.py) on the words table of          *)
(* data/scripts/init_db.py: id INTEGER PRIMARY KEY, UNIQUE(word, language).*)
(***************************************************************************)
DbWords == {"w1", "w2"}

DbLanguages == {"tamil", "hindi"}

DbMeanings == {"m1", "m2"}

DbScript(language) == IF language = "tamil" THEN "tamil" ELSE "devanagari"

\* a lookup that inspects the newest row only
SelectExisting_last_row_only(t, word, language) ==
    {i \in {Len(t)} \cap (1..Len(t)) : t[i].word = word /\ t[i].language = language}

\* SELECT id FROM words WHERE word = ? AND language = ?: the matching rows
SelectExisting(t, word, language) ==
    {i \in 1..Len(t) : t[i].word = word /\ t[i].language = language}

\* the rowid SQLite gives the next row of an INTEGER PRIMARY KEY table
NextRowId(t) ==
    IF t = <<>> THEN 1
    ELSE 1 + (CHOOSE m \in {t[i].id : i \in 1..Len(t)} :
                 \A i \in 1..Len(t) : t[i].id <= m)

\* The body of add_word when the connection works: the existing row's id,
\* or an INSERT, which the UNIQUE(word, language) constraint refuses with
\* IntegrityError (a sqlite3.Error, re-raised as DatabaseError).
add_word(t, word, language, script, romanized, meaning) ==
    LET existing == SelectExisting(t, word, language) IN
    IF existing # {}
    THEN [outcome |-> "returned", cause |-> "none",
          id |-> t[CHOOSE i \in existing : \A j \in existing : i <= j].id,
          table |-> t]
    ELSE IF \E i \in 1..Len(t) : t[i].word = word /\ t[i].language = language
    THEN [outcome |-> "DatabaseError", cause |-> "IntegrityError", id |-> 0,
          table |-> t]
    ELSE [outcome |-> "returned", cause |-> "none", id |-> NextRowId(t),
          table |-> Append(t, [id |-> NextRowId(t), word |-> word,
                               language |-> language, script |-> script,
                               romanized |-> romanized, meaning |-> meaning])]

InitDatabase ==
    /\ NoCaller
    /\ NoCollector
    /\ NoScriptCaller
    /\ table = <<>>
    /\ db_call = [fn |-> "none"]

\* One add_word call.  sqlite3.connect or an execute may fail for reasons of
\* the environment (OperationalError); nothing is committed then.
AddWord ==
    \E word \in DbWords, language \in DbLanguages, meaning \in DbMeanings :
        LET call == [fn |-> "add_word", word |-> word, language |-> language,
                     meaning |-> meaning, before |-> table]
            r == add_word(table, word, language, DbScript(language), "r", meaning)
        IN \/ /\ table' = r.table
              /\ db_call' = call @@
                             [outcome |-> r.outcome, cause |-> r.cause, id |-> r.id]
           \/ /\ table' = table
              /\ db_call' = call @@ [outcome |-> "DatabaseError",
                                     cause |-> "OperationalError", id |-> 0]

NextDatabase ==
    \/ AddWord /\ UNCHANGED <<rvars, cvars, svars>>

SpecDatabase == InitDatabase /\ [][NextDatabase]_vars

(***************************************************************************)
(* Vocabulary of the properties of reconcile, stated on the list handed    *)
(* to the call (arg) and on the records it returned (reconciled).          *)
(***************************************************************************)
\* a dictionary that has every required field and a context naming its source
WellFormed(e) ==
    /\ {"word", "sanskrit_word", "language", "confidence", "source_url", "context"}
          \subseteq DOMAIN e
    /\ e.context # None
    /\ "source" \in DOMAIN e.context

TripleOf(e) == <<e.sanskrit_word, e.word, e.language>>

\* positions of the well-formed candidates of a triple
Members(es, k) ==
    {i \in 1..Len(es) : WellFormed(es[i]) /\ TripleOf(es[i]) = k}

\* positions of the candidates of a triple at or above 0.7
Survivors(es, k) ==
    {i \in Members(es, k) : es[i].confidence.num * 10 >= 7 * es[i].confidence.den}

Triples(es) == {TripleOf(es[i]) : i \in {j \in 1..Len(es) : WellFormed(es[j])}}

SurvivingTriples(es) == {k \in Triples(es) : Survivors(es, k) # {}}

RecordsOf(recs, k) == {j \in 1..Len(recs) : TripleOf(recs[j]) = k}

Returned == rstatus = "returned"

RECURSIVE SumConfidence(_, _, _)
SumConfidence(es, S, n) ==
    IF n = 0 THEN Zero
    ELSE RatAdd(SumConfidence(es, S, n - 1),
                IF n \in S THEN es[n].confidence ELSE Zero)

MaxConfidence(es, S) ==
    CHOOSE c \in {es[i].confidence : i \in S} :
        \A i \in S : RatLe(es[i].confidence, c)

\* min(1.0, p * (1 + 0.1 * a * (n - 1))) over the survivors S
ExpectedConfidence(es, S) ==
    LET n == Cardinality(S)
        p == MaxConfidence(es, S)
        a == IF n = 1 THEN One
             ELSE RatDiv(SumConfidence(es, S, Len(es)), RatMul(RatOfInt(n), p))
    IN RatMin(One, RatMul(p, RatAdd(One,
                 RatMul(Rat(1, 10), RatMul(a, RatOfInt(n - 1))))))

\* a record as the order-independence claim compares it
Compared(r) ==
    [word |-> r.word, sanskrit_word |-> r.sanskrit_word, language |-> r.language,
     confidence |-> r.confidence, source_url |-> r.source_url,
     agreement_score |-> r.context.agreement_score,
     source_count |-> r.context.source_count,
     meanings |-> r.meanings, usage_examples |-> r.usage_examples]

ComparedSet(recs) == {Compared(recs[j]) : j \in 1..Len(recs)}

(***************************************************************************)
(* C1.  Order independence: reconciling the same candidates accumulated in *)
(* another order returns the same set of records (word, sanskrit_word,     *)
(* language, confidence, source_url, agreement_score and source_count per  *)
(* record, meanings and usage_examples as sets).                           *)
(***************************************************************************)
C1_OrderIndependent ==
    (calls = "twice" /\ Returned /\ ~first.raised)
        => ComparedSet(reconciled) = ComparedSet(first.records)

(***************************************************************************)
(* C2.  A group with exactly one candidate at or above the threshold       *)
(* yields one record whose confidence is that candidate's confidence,      *)
(* however many below-threshold candidates share the group.                *)
(***************************************************************************)
C2_SingleSurvivorKeepsConfidence ==
    Returned =>
        \A k \in Triples(arg) :
            Cardinality(Survivors(arg, k)) = 1 =>
                /\ Cardinality(RecordsOf(reconciled, k)) = 1
                /\ \A j \in RecordsOf(reconciled, k) : \A i \in Survivors(arg, k) :
                      reconciled[j].confidence = arg[i].confidence

C2_Witness ==
    /\ Returned
    /\ \E k \in Triples(arg) :
          /\ Cardinality(Survivors(arg, k)) = 1
          /\ Cardinality(Members(arg, k)) >= 3
          /\ RecordsOf(reconciled, k) # {}

(***************************************************************************)
(* C3.  No record is emitted for a group whose candidates are all strictly *)
(* below the threshold 0.7; a candidate exactly at the threshold is a      *)
(* survivor, so its group does yield a record.                             *)
(***************************************************************************)
C3_BelowThresholdDropped ==
    Returned =>
        \A k \in Triples(arg) :
            /\ (\A i \in Members(arg, k) : RatLt(arg[i].confidence, Rat(7, 10)))
                  => RecordsOf(reconciled, k) = {}
            /\ (\E i \in Members(arg, k) : arg[i].confidence = Rat(7, 10))
                  => RecordsOf(reconciled, k) # {}

C3_Witness ==
    /\ Returned
    /\ \E k \in Triples(arg) :
          /\ \A i \in Members(arg, k) : RatLt(arg[i].confidence, Rat(7, 10))
          /\ RecordsOf(reconciled, k) = {}
    /\ \E k \in Triples(arg) :
          /\ \A i \in Members(arg, k) : arg[i].confidence = Rat(7, 10)
          /\ RecordsOf(reconciled, k) # {}

(***************************************************************************)
(* C4.  A record's confidence is min(1.0, p * (1 + 0.1 * a * (n - 1)))     *)
(* with n the number of survivors of its group, p their greatest           *)
(* confidence and a = 1 for n = 1, else (sum of their confidences)/(n*p);  *)
(* so it is at most 1.0 and at least p.                                    *)
(***************************************************************************)
C4_CombinedConfidence ==
    Returned =>
        \A j \in 1..Len(reconciled) :
            LET S == Survivors(arg, TripleOf(reconciled[j])) IN
            /\ S # {}
            /\ reconciled[j].confidence = ExpectedConfidence(arg, S)
            /\ RatLe(reconciled[j].confidence, One)
            /\ RatLe(MaxConfidence(arg, S), reconciled[j].confidence)

\* survivors 0.9 and 0.95: confidence above 0.95, at most 1.0
C4_Witness ==
    /\ Returned
    /\ \E j \in 1..Len(reconciled) :
          LET S == Survivors(arg, TripleOf(reconciled[j])) IN
          /\ Cardinality(S) >= 2
          /\ \E i \in S : arg[i].confidence = Rat(90, 100)
          /\ \E i \in S : arg[i].confidence = Rat(95, 100)
          /\ RatLt(Rat(95, 100), reconciled[j].confidence)
          /\ RatLe(reconciled[j].confidence, One)

C7_MalformedSkipped ==
    calls # "none" =>
        /\ rstatus # "raised"
        /\ reconciled = reconcile(SelectSeq(arg, WellFormed)).records

(***************************************************************************)
(* C8.  For a candidate whose confidence is in [0,1] and any configured    *)
(* source weight, _adjust_confidence produces a confidence in [0,1].       *)
(***************************************************************************)
C8_AdjustedConfidenceInUnitInterval ==
    \A c \in adjust_calls :
        (RatLe(Zero, c.confidence) /\ RatLe(c.confidence, One)) =>
            /\ c.outcome = "returned"
            /\ RatLe(Zero, c.adjusted)
            /\ RatLe(c.adjusted, One)

(***************************************************************************)
(* C9.  In every run of collect_and_store, cleanup() is invoked on every   *)
(* adapter the collector constructed, whatever raised during the run.      *)
(***************************************************************************)
C9_CleanupOnEveryAdapter ==
    pc \in {"done", "raised"} => \A i \in 1..Len(scrapers) : cleaned[i] >= 1

(***************************************************************************)
(* C10.  A configuration error for one (language, source) pair, an         *)
(* unsupported language or an unsupported source identifier, skips only    *)
(* that pair: construction does not abort and the adapters of all other    *)
(* pairs are constructed.                                                  *)
(***************************************************************************)
ConfigurationError(p) ==
    p.id \notin ScraperIds \/ ConstructorRaisesValueError(p.id, p.language)

C10_ConfigErrorSkipsOnlyThatPair ==
    cstatus # "new" =>
        /\ cstatus = "constructed"
        /\ [i \in 1..Len(scrapers) |->
               [language |-> scrapers[i].language, id |-> scrapers[i].id]]
             = SelectSeq(Pairs(languages, active_scrapers),
                         LAMBDA p : ~ConfigurationError(p))

(***************************************************************************)
(* C11.  In the store phase a storage failure on one reconciled record     *)
(* does not stop the loop: add_word is attempted for every reconciled      *)
(* record, in order, and stored_count is the number of calls that did not  *)
(* raise.                                                                  *)
(***************************************************************************)
C11_StoreFailureDoesNotStopLoop ==
    pc = "done" =>
        /\ store_attempts =
              [i \in 1..Len(reconciled_words) |-> AddWordKwargs(reconciled_words[i])]
        /\ Len(store_outcomes) = Len(reconciled_words)
        /\ stored_count =
              Cardinality({i \in 1..Len(store_outcomes) : store_outcomes[i] = "stored"})

\* a call raised and a later record was stored all the same
C11_Witness ==
    /\ pc = "done"
    /\ \E i, j \in 1..Len(store_outcomes) :
          /\ i < j
          /\ store_outcomes[i] = "DatabaseError"
          /\ store_outcomes[j] = "stored"
    /\ stored_count >= 1

C13_ReturnsCounts ==
    result.returned =>
        /\ {"fetched", "stored"} \subseteq DOMAIN result.value
        /\ result.value.stored = stored_count
        /\ result.value.fetched = Len(all_words)

(***************************************************************************)
(* C14.  When an adapter met a failed request during scrape_words (and the *)
(* cache file, if any, could be written), the entries it returned all the  *)
(* same are accumulated in all_words (the list handed to reconcile), the   *)
(* run goes on, and the adapter's cleanup() has been called once the loop  *)
(* has moved past it.                                                      *)
(***************************************************************************)
SameEntry(a, b) ==
    /\ a.word = b.word
    /\ a.sanskrit_word = b.sanskrit_word
    /\ a.language = b.language

C14_PartialEntriesReachReconciler ==
    (/\ idx > 1
     /\ pc \in {"scrape", "reconcile"}
     /\ fetched.transient
     /\ "cache" \notin failures) =>
        /\ cleaned[idx - 1] >= 1
        /\ Len(all_words) >= Len(fetched.returned)
        /\ \A k \in 1..Len(fetched.returned) :
              SameEntry(all_words[Len(all_words) - Len(fetched.returned) + k],
                        fetched.returned[k])

(***************************************************************************)
(* C15.  Every HTTP request an adapter issues is for a URL the robots.txt  *)
(* policy read at construction allows: a disallowed URL is never           *)
(* requested.                                                              *)
(***************************************************************************)
C15_DisallowedNeverRequested ==
    \A r \in requests : r.allowed

(***************************************************************************)
(* C16.  No adapter is constructed for a language it does not support:     *)
(* the constructor raises ValueError, so the collector holds no adapter    *)
(* whose language is outside the languages its source has.                 *)
(***************************************************************************)
C16_UnsupportedLanguageRejected ==
    \A i \in 1..Len(scrapers) :
        scrapers[i].language \in SupportedLanguages(scrapers[i].id)

(***************************************************************************)
(* C17.  get_script returns a script whose character count is the highest, *)
(* and returns LATIN, the fallback, for every text in which every script's *)
(* count is zero, the empty string among them.                             *)
(***************************************************************************)
C17_GetScriptHighestOrFallback ==
    script_call.fn = "get_script" =>
        LET counts == script_counts(script_text)
            k == CHOOSE j \in 1..Len(ScriptOrder) : ScriptOrder[j] = script_call.result
        IN /\ \A h \in 1..Len(ScriptOrder) : counts[h] <= counts[k]
           /\ (\A h \in 1..Len(ScriptOrder) : counts[h] = 0) =>
                 script_call.result = "LATIN"

(***************************************************************************)
(* C18.  validate_script returns true exactly when every non-whitespace    *)
(* character is numeric with numerals allowed, or a diacritical mark with  *)
(* diacritics allowed, or inside a block of the expected script; a         *)
(* character inside the expected block is accepted whatever the flags.     *)
(***************************************************************************)
Conforms(char_code, expected_script, allow_numerals, allow_diacritics) ==
    \/ IsSpace(char_code)
    \/ IsNumeric(char_code) /\ allow_numerals
    \/ char_code \in DIACRITICS /\ allow_diacritics
    \/ InRanges(char_code, expected_script)

C18_ValidateScriptExact ==
    script_call.fn = "validate_script" =>
        script_call.result =
            \A i \in 1..Len(script_text) :
                Conforms(script_text[i], script_call.expected_script,
                         script_call.allow_numerals, script_call.allow_diacritics)

(***************************************************************************)
(* C19.  The words table never holds two rows for one (word, language),    *)
(* and an add_word call for a pair that is already there returns the id of *)
(* its row and leaves the table as it was (unless the connection itself    *)
(* failed).                                                                *)
(***************************************************************************)
RowsOf(t, word, language) ==
    {i \in 1..Len(t) : t[i].word = word /\ t[i].language = language}

C19_AddWordIdempotent ==
    /\ \A i, j \in 1..Len(table) :
          (table[i].word = table[j].word /\ table[i].language = table[j].language)
              => i = j
    /\ (/\ db_call.fn = "add_word"
        /\ db_call.cause # "OperationalError"
        /\ RowsOf(db_call.before, db_call.word, db_call.language) # {}) =>
          /\ db_call.outcome = "returned"
          /\ \E i \in RowsOf(db_call.before, db_call.word, db_call.language) :
                db_call.before[i].id = db_call.id
          /\ table = db_call.before

\* a second delivery of an older row's pair, with another meaning, was answered
\* with that row's id
C19_Witness ==
    /\ db_call.fn = "add_word"
    /\ db_call.outcome = "returned"
    /\ Len(table) >= 2
    /\ \E i \in RowsOf(db_call.before, db_call.word, db_call.language) :
          /\ i < Len(table)
          /\ db_call.before[i].meaning # db_call.meaning
          /\ db_call.id = db_call.before[i].id

(***************************************************************************)
(* C20.  Every _adjust_confidence call yields                              *)
(* min(1.0, confidence * weight * penalty), the penalty being the product  *)
(* of 0.8 when the language has a script mapping and the word fails        *)
(* conformance, 0.8 when it has one and sanskrit_word fails Devanagari     *)
(* conformance, and 1.1 when the context's collection is a classical one.  *)
(***************************************************************************)
ExpectedPenalty(word_info) ==
    LET known == word_info.language \in DOMAIN script_map
        f_word == IF known /\ ~validate_script(word_info.word,
                                   script_map[word_info.language], TRUE, TRUE)
                  THEN Rat(8, 10) ELSE One
        f_root == IF known /\ ~validate_script(word_info.sanskrit_word,
                                   "DEVANAGARI", TRUE, TRUE)
                  THEN Rat(8, 10) ELSE One
        f_coll == IF /\ "context" \in DOMAIN word_info
                     /\ "collection" \in DOMAIN word_info.context
                     /\ word_info.context.collection \in {"bhagavad_gita", "upanishads"}
                  THEN Rat(11, 10) ELSE One
    IN RatMul(RatMul(f_word, f_root), f_coll)

C20_AdjustedConfidenceFormula ==
    \A c \in adjust_calls :
        /\ c.outcome = "returned"
        /\ c.adjusted = RatMin(One, RatMul(RatMul(c.confidence, c.weight),
                                           ExpectedPenalty(c.word_info)))

(***************************************************************************)
(* C21.  _adjust_confidence is free of side effects: every call returns,   *)
(* the dictionary passed in is left as it was (its confidence still the    *)
(* raw one), and adjusting what a call left behind gives the same result   *)
(* as adjusting the raw candidate.                                         *)
(***************************************************************************)
C21_AdjustLeavesArgumentUnchanged ==
    \A c \in adjust_calls :
        /\ c.outcome = "returned"
        /\ c.left = c.word_info
        /\ adjust_confidence(c.left, c.weight) = adjust_confidence(c.word_info, c.weight)

(***************************************************************************)
(* C22.  Every record's source_url is the source_url of a survivor of its  *)
(* own triple with the greatest confidence among the survivors, and of no  *)
(* candidate of another triple.                                            *)
(***************************************************************************)
C22_SourceUrlFromPrimarySurvivor ==
    Returned =>
        \A j \in 1..Len(reconciled) :
            LET k == TripleOf(reconciled[j])
                S == Survivors(arg, k)
            IN /\ \E i \in S :
                     /\ arg[i].confidence = MaxConfidence(arg, S)
                     /\ arg[i].source_url = reconciled[j].source_url
               /\ \A i \in 1..Len(arg) :
                     (WellFormed(arg[i]) /\ arg[i].source_url = reconciled[j].source_url)
                        => TripleOf(arg[i]) = k

\* survivors of different confidence from different pages, and a
\* below-threshold candidate of the same triple from another page than the
\* record's
C22_Witness ==
    /\ Returned
    /\ \E j \in 1..Len(reconciled) :
          LET k == TripleOf(reconciled[j])
              S == Survivors(arg, k)
          IN /\ \E i1, i2 \in S :
                   /\ arg[i1].confidence # arg[i2].confidence
                   /\ arg[i1].source_url # arg[i2].source_url
             /\ \E m \in Members(arg, k) \ S :
                   arg[m].source_url # reconciled[j].source_url

(***************************************************************************)
(* C23.  For every record, context.source_count is the number of           *)
(* candidates of its triple at or above the threshold and context.sources  *)
(* holds exactly those survivors' source names, one per survivor.          *)
(***************************************************************************)
C23_SourcesAreTheSurvivors ==
    Returned =>
        \A j \in 1..Len(reconciled) :
            LET S == Survivors(arg, TripleOf(reconciled[j]))
                c == reconciled[j].context
            IN /\ c.source_count = Cardinality(S)
               /\ Len(c.sources) = Cardinality(S)
               /\ \A p \in 1..Len(c.sources) : c.sources[p] \in SourceNames
               /\ \A n \in SourceNames :
                     Cardinality({p \in 1..Len(c.sources) : c.sources[p] = n})
                        = Cardinality({i \in S : arg[i].context.source = n})

\* two survivors from one source and a below-threshold candidate from the other
C23_Witness ==
    /\ Returned
    /\ \E j \in 1..Len(reconciled) :
          LET k == TripleOf(reconciled[j])
              S == Survivors(arg, k)
              c == reconciled[j].context
          IN /\ Cardinality(S) = 2
             /\ c.source_count = 2
             /\ \E m \in Members(arg, k) \ S :
                   \A p \in 1..Len(c.sources) : c.sources[p] # arg[m].context.source

(***************************************************************************)
(* C24.  Filtering precedes merging: a record's meanings and               *)
(* usage_examples are the unions of those fields over the survivors of its *)
(* triple, and its agreement score and confidence are computed from the    *)
(* survivors alone.                                                        *)
(***************************************************************************)
ExpectedAgreement(es, S) ==
    IF Cardinality(S) = 1 THEN One
    ELSE RatDiv(SumConfidence(es, S, Len(es)),
                RatMul(RatOfInt(Cardinality(S)), MaxConfidence(es, S)))

C24_MergedFromSurvivorsOnly ==
    Returned =>
        \A j \in 1..Len(reconciled) :
            LET S == Survivors(arg, TripleOf(reconciled[j])) IN
            /\ reconciled[j].meanings = UNION {GetSet(arg[i], "meanings") : i \in S}
            /\ reconciled[j].usage_examples
                  = UNION {GetSet(arg[i], "usage_examples") : i \in S}
            /\ reconciled[j].context.agreement_score = ExpectedAgreement(arg, S)
            /\ reconciled[j].confidence = ExpectedConfidence(arg, S)

\* a below-threshold candidate is the only one of its triple to give a
\* meaning and a usage example, and the record has neither
C24_Witness ==
    /\ Returned
    /\ \E j \in 1..Len(reconciled) :
          LET k == TripleOf(reconciled[j])
              S == Survivors(arg, k)
          IN \E m \in Members(arg, k) \ S :
                /\ \E x \in GetSet(arg[m], "meanings") : x \notin reconciled[j].meanings
                /\ \E x \in GetSet(arg[m], "usage_examples") :
                      x \notin reconciled[j].usage_examples

(***************************************************************************)
(* C25.  Between any two requests one adapter sends during scrape_words,   *)
(* at least its delay elapses.                                             *)
(***************************************************************************)
C25_DelayBetweenRequests ==
    \A r1, r2 \in requests :
        (r1.url # r2.url /\ r1.at <= r2.at) => r2.at - r1.at >= Delay

(***************************************************************************)
(* C26.  When a run is interrupted while a fetch is in flight, cleanup()   *)
(* is still invoked on every constructed adapter and collect_and_store     *)
(* returns to its caller.                                                  *)
(***************************************************************************)
C26_InterruptStillCleansUpAll ==
    (pc = "raised" /\ "interrupt" \in failures) =>
        /\ \A i \in 1..Len(scrapers) : cleaned[i] >= 1
        /\ result.returned

(***************************************************************************)
(* C27.  Every dictionary an adapter's scrape_words returns has the        *)
(* fields the reconciler reads, context['source'] among them, so reconcile *)
(* converts it and groups it.                                              *)
(***************************************************************************)
C27_ScrapedEntriesConvert ==
    \A k \in 1..Len(fetched.returned) : ConvertOutcome(fetched.returned[k]) = "ok"

(***************************************************************************)
(* C28.  _adjust_confidence is total: a call on a candidate that has word, *)
(* sanskrit_word, language and confidence returns, and no adapter's batch  *)
(* is dropped because adjustment raised.                                   *)
(***************************************************************************)
C28_AdjustNeverRaises ==
    /\ \A c \in adjust_calls :
          {"word", "sanskrit_word", "language", "confidence"} \subseteq DOMAIN c.word_info
             => c.outcome \notin {"AttributeError", "KeyError"}
    /\ "adjust" \notin failures

(***************************************************************************)
(* C29.  The cache is a side artifact: an adapter whose cache file could   *)
(* not be written still has its adjusted words at the end of all_words,    *)
(* and a run given a cache directory reaches reconciliation as a run       *)
(* without one does.                                                       *)
(***************************************************************************)
IsSuffix(s, t) ==
    /\ Len(s) <= Len(t)
    /\ SubSeq(t, Len(t) - Len(s) + 1, Len(t)) = s

C29_CacheIsSideArtifact ==
    /\ (pc = "finally" /\ failures = {"cache"}) => IsSuffix(words, all_words)
    /\ (cache_dir /\ pc = "raised") => failures \subseteq {"interrupt"}

(***************************************************************************)
(* C30.  A script-conformant candidate with the base confidence its        *)
(* adapter assigns is adjusted, by the arithmetic of _adjust_confidence    *)
(* and the weight of its source, to a confidence of at least the           *)
(* reconciler's threshold.                                                 *)
(***************************************************************************)
ScriptConformant(word_info) ==
    /\ word_info.language \in DOMAIN script_map
    /\ validate_script(word_info.word, script_map[word_info.language], TRUE, TRUE)
    /\ validate_script(word_info.sanskrit_word, "DEVANAGARI", TRUE, TRUE)

C30_SingleObservationSurvives ==
    pc = "adjust" =>
        \A k \in 1..Len(words) :
            ScriptConformant(words[k]) =>
                RatLe(confidence_threshold,
                      RatMin(One, RatMul(RatMul(words[k].confidence, scrapers[idx].weight),
                                         script_validation(words[k]))))

====
